---- MODULE Spec2Model ----
(***************************************************************************)
(* chompie: a source minimizer driven by an external command.  The model   *)
(* covers the file-state model (file_manager.rs), the command oracle       *)
(* (command_runner.rs), the range generators (strategies/*.rs), the        *)
(* reduction engine (chomper.rs) and the round loop of run_chomp (main.rs).*)
(*                                                                         *)
(* File contents are sequences of one-character strings; a line is the     *)
(* sequence of characters between two line feeds.  Paths are numbered.     *)
(***************************************************************************)
EXTENDS Integers, Sequences, FiniteSets, TLC

VARIABLES
  content_read,     \* path -> the bytes add_file read from disk
  original_lines,   \* FileState.original_lines, per path
  blanked_lines,    \* FileState.blanked_lines, per path, in HashSet iteration order
  file_order,       \* iteration order of FileManager.files (a HashMap)
  disk,             \* path -> current bytes of the file on disk
  command,          \* CommandRunner.command
  baseline_result,  \* Chomper.baseline_result (None or a RunResult)
  tested_states,    \* Chomper.tested_states
  strategies,       \* the strategy list built by parse_strategies
  pc,               \* position of run_chomp / of the caller of the engine
  round,            \* run_chomp: round
  round_successful, \* run_chomp: round_successful
  total_successful, \* run_chomp: total_successful
  strat_idx,        \* run_chomp: index of the strategy of the for loop
  ranges,           \* execute_strategy: ranges not yet attempted
  successful,       \* execute_strategy: successful
  initial_lines,    \* run_chomp: initial_lines
  last_call,        \* record of the latest try_blank_range call
  oracle_log,       \* state keys under which try_blank_range ran the oracle
  calls,            \* number of try_blank_range calls made by the direct caller
  faults,           \* number of oracle launch failures so far
  ops               \* the calls a user of FileManager or of a Strategy made, in order

vars == <<content_read, original_lines, blanked_lines, file_order, disk, command,
          baseline_result, tested_states, strategies, pc, round, round_successful,
          total_successful, strat_idx, ranges, successful, initial_lines,
          last_call, oracle_log, calls, faults, ops>>

----------------------------------------------------------------------------
(* Bounds *)

MaxFiles == 2        \* managed files
MaxSegs == 3         \* line-feed separated segments over all files
MaxStrategies == 2   \* length of the strategy list
MaxWindow == 2       \* --window-size
MaxRounds == 8       \* cap of the round counter
MaxCalls == 2        \* try_blank_range calls of the direct caller
MaxFaults == 1       \* oracle launch failures
MaxApiSegs == 2      \* segments of the files of the direct caller
MaxTermSegs == 2     \* segments of the file of the termination check
MaxFaultSegs == 2    \* segments of the files of the runs with faults
MaxFileSegs == 2     \* segments of all files together, for a user of FileManager
MaxOps == 3          \* calls a user of FileManager makes
MaxGenLines == 9     \* lines of the file, for a caller of generate_ranges on one file
MaxGenFileLines == 2 \* lines of each file, for a caller of generate_ranges on several
MaxGenWindow == 3    \* window sizes given to the window strategies
MaxAttempts == 3     \* max_attempts given to the random strategies
MaxGenCalls == 2     \* generate_ranges calls on one set of file states

----------------------------------------------------------------------------
(* Generic helpers *)

LF == "\n"
CR == "\r"

Range(s) == {s[i] : i \in 1..Len(s)}

\* sum of s[i..Len(s)]
RECURSIVE SumFrom(_, _)
SumFrom(s, i) == IF i > Len(s) THEN 0 ELSE s[i] + SumFrom(s, i + 1)
SumSeq(s) == SumFrom(s, 1)

\* concatenation of ss[i..Len(ss)]
RECURSIVE ConcatFrom(_, _)
ConcatFrom(ss, i) == IF i > Len(ss) THEN <<>> ELSE ss[i] \o ConcatFrom(ss, i + 1)
Concat(ss) == ConcatFrom(ss, 1)

Min(a, b) == IF a < b THEN a ELSE b
Max(a, b) == IF a > b THEN a ELSE b

\* the k-th smallest element of a finite set of numbers
Kth(S, k) == CHOOSE x \in S : Cardinality({y \in S : y < x}) = k - 1

\* ascending sequence of the elements of a finite set of numbers
SortedSeq(S) == [k \in 1..Cardinality(S) |-> Kth(S, k)]

\* every ordering of a finite set
RECURSIVE Perms(_)
Perms(S) ==
  IF S = {} THEN {<<>>}
  ELSE UNION {{<<x>> \o p : p \in Perms(S \ {x})} : x \in S}

InsertAt(s, i, x) == SubSeq(s, 1, i - 1) \o <<x>> \o SubSeq(s, i, Len(s))

----------------------------------------------------------------------------
(* file_manager.rs: FileState *)

\* the positions of the line feeds of a content
LFs(content) == {i \in 1..Len(content) : content[i] = LF}

\* the position of the j-th line feed; 0 before the first one, one past the
\* end after the last one
Cut(content, j) ==
  IF j = 0 THEN 0
  ELSE IF j > Cardinality(LFs(content)) THEN Len(content) + 1
  ELSE Kth(LFs(content), j)

\* the segments between the line feeds of a content: one more than line feeds
Segments(content) ==
  [j \in 1..(Cardinality(LFs(content)) + 1) |->
     SubSeq(content, Cut(content, j - 1) + 1, Cut(content, j) - 1)]

StripCR(l) == IF Len(l) > 0 /\ l[Len(l)] = CR THEN SubSeq(l, 1, Len(l) - 1) ELSE l

\* str::lines(): the content split at line feeds, the terminator (and a
\* carriage return before it) removed; what follows the last line feed is a
\* line only when it is not empty
lines(content) ==
  LET n == Cardinality(LFs(content))
  IN [j \in 1..(IF Cut(content, n) = Len(content) THEN n ELSE n + 1) |->
        IF j <= n THEN StripCR(Segments(content)[j]) ELSE Segments(content)[j]]

\* FileState::new: original_lines of a content
FileState_new(content) == lines(content)

\* [String]::join("\n"), from the i-th string on
RECURSIVE JoinFrom(_, _)
JoinFrom(ls, i) ==
  IF i > Len(ls) THEN <<>>
  ELSE IF i = Len(ls) THEN ls[i]
  ELSE ls[i] \o <<LF>> \o JoinFrom(ls, i + 1)
join(ls) == JoinFrom(ls, 1)

\* HashSet::insert: the iteration orders the set can have afterwards.  A new
\* element lands in a free bucket (any position between the others); when
\* the table grows (4th and 8th element) every element is rehashed.
GrowAt == {3, 7}
HashSet_insert(seq, x) ==
  IF x \in Range(seq) THEN {seq}
  ELSE IF Len(seq) \in GrowAt THEN Perms(Range(seq) \cup {x})
  ELSE {InsertAt(seq, i, x) : i \in 1..(Len(seq) + 1)}

\* HashSet::remove
HashSet_remove(seq, x) == SelectSeq(seq, LAMBDA y : y # x)

\* the guard of blank_lines with <= for <
InRange_inclusive(line, total) == line <= total

\* the guard of blank_lines: only indices of existing lines are inserted
InRange(line, total) == line < total

\* FileState::blank_lines(lines) on a blanked set `seq` of a file of `total`
\* lines: the set of iteration orders it can end in
RECURSIVE blank_lines(_, _, _)
blank_lines(seq, ls, total) ==
  IF ls = <<>> THEN {seq}
  ELSE IF InRange(Head(ls), total)
       THEN UNION {blank_lines(s, Tail(ls), total) : s \in HashSet_insert(seq, Head(ls))}
       ELSE blank_lines(seq, Tail(ls), total)

\* FileState::unblank_lines(lines)
RECURSIVE unblank_lines(_, _)
unblank_lines(seq, ls) ==
  IF ls = <<>> THEN seq
  ELSE unblank_lines(HashSet_remove(seq, Head(ls)), Tail(ls))

\* current_content that leaves the blanked lines out
current_content_dropping(orig, seq) ==
  join(SelectSeq([i \in 1..Len(orig) |-> IF (i - 1) \in Range(seq) THEN <<LF>> ELSE orig[i]],
                 LAMBDA l : l # <<LF>>))

\* FileState::current_content
current_content(orig, seq) ==
  join([i \in 1..Len(orig) |-> IF (i - 1) \in Range(seq) THEN <<>> ELSE orig[i]])

\* FileState::total_lines
total_lines(orig) == Len(orig)

\* FileState::non_blank_lines (usize subtraction)
non_blank_lines(orig, seq) == Len(orig) - Len(seq)

\* non_blank_line_indices without the filter on blanked_lines
non_blank_line_indices_unfiltered(orig, seq) ==
  SortedSeq({i \in 0..(Len(orig) - 1) : TRUE})

\* FileState::non_blank_line_indices
non_blank_line_indices(orig, seq) ==
  SortedSeq({i \in 0..(Len(orig) - 1) : i \notin Range(seq)})

----------------------------------------------------------------------------
(* file_manager.rs: FileManager *)

Paths == DOMAIN original_lines

\* FileManager::write_all on the file states (orig, bl): the disk afterwards
write_all(orig, bl) == [p \in DOMAIN orig |-> current_content(orig[p], bl[p])]

\* FileManager::restore_all on the file states: the disk afterwards, every
\* file written with original_lines.join("\n")
restore_all(orig) == [p \in DOMAIN orig |-> join(orig[p])]

\* FileManager::non_blank_lines
NonBlankTotal(orig, bl) ==
  SumSeq([p \in 1..Len(orig) |-> non_blank_lines(orig[p], bl[p])])

BlankedSets(bl) == [p \in DOMAIN bl |-> Range(bl[p])]

----------------------------------------------------------------------------
(* command_runner.rs *)

\* is_identical without the exit code
is_identical_no_exit_code(a, b) ==
  a.stdout = b.stdout /\ a.stderr = b.stderr

\* is_identical without stderr
is_identical_no_stderr(a, b) ==
  a.stdout = b.stdout /\ a.exit_code = b.exit_code

\* RunResult::is_identical
is_identical(a, b) ==
  a.stdout = b.stdout /\ a.stderr = b.stderr /\ a.exit_code = b.exit_code

\* grep -c m: the number of lines of a file on disk that contain m
Matches(content) ==
  Cardinality({j \in 1..(Cardinality(LFs(content)) + 1) : "m" \in Range(Segments(content)[j])})

Commands == {"echo", "cat", "grep_c", "grep_q", "cat_err"}

\* CommandRunner::run: the command is run by sh -c on the files as they are
\* on disk.  echo k; cat FILES; grep -c m FILES; grep -q m FILES; cat FILES >&2
run(cmd, d) ==
  LET all == Concat([p \in 1..Len(d) |-> d[p]])
      counts == [p \in 1..Len(d) |-> Matches(d[p])]
      found == \E p \in 1..Len(d) : counts[p] > 0
  IN CASE cmd = "echo" -> [stdout |-> <<"k", LF>>, stderr |-> <<>>, exit_code |-> 0]
       [] cmd = "cat" -> [stdout |-> all, stderr |-> <<>>, exit_code |-> 0]
       [] cmd = "grep_c" -> [stdout |-> counts, stderr |-> <<>>,
                             exit_code |-> IF found THEN 0 ELSE 1]
       [] cmd = "grep_q" -> [stdout |-> <<>>, stderr |-> <<>>,
                             exit_code |-> IF found THEN 0 ELSE 1]
       [] cmd = "cat_err" -> [stdout |-> <<>>, stderr |-> all, exit_code |-> 0]

----------------------------------------------------------------------------
(* strategy.rs and strategies/*.rs *)

\* ChompRange
ChompRange(file, start_line, end_line) ==
  [file |-> file, start_line |-> start_line, end_line |-> end_line]

\* bisection.rs, inner loop: consecutive chunks of range_size entries of the
\* non-blank index list L, from the 0-based position start_idx on
RECURSIVE BisectionChunks(_, _, _, _)
BisectionChunks(path, L, range_size, start_idx) ==
  IF start_idx < Len(L)
  THEN LET end_idx == Min(start_idx + range_size, Len(L))
       IN <<ChompRange(path, L[start_idx + 1], L[end_idx] + 1)>>
            \o BisectionChunks(path, L, range_size, end_idx)
  ELSE <<>>

\* the next range size when it shrinks by one entry
next_range_size_minus_one(range_size) == range_size - 1

\* range_size /= 2
next_range_size(range_size) == range_size \div 2

\* bisection.rs, outer loop: range_size, range_size / 2, ... while > 0
RECURSIVE BisectionSizes(_, _, _)
BisectionSizes(path, L, range_size) ==
  IF range_size > 0
  THEN BisectionChunks(path, L, range_size, 0)
         \o BisectionSizes(path, L, next_range_size(range_size))
  ELSE <<>>

\* the first range size when it is the whole list
first_range_size_whole(count) == count

\* let mut range_size = count / 2
first_range_size(count) == count \div 2

\* BisectionStrategy::generate_ranges
BisectionStrategy_generate_ranges(order, orig, bl) ==
  Concat([k \in 1..Len(order) |->
    LET L == non_blank_line_indices(orig[order[k]], bl[order[k]])
    IN IF L = <<>> THEN <<>> ELSE BisectionSizes(order[k], L, first_range_size(Len(L)))])

\* SlidingWindowStrategy::new
SlidingWindowStrategy_new(window_size) == Max(window_size, 1)

\* generate_ranges that skips a file with fewer non-blank lines than the window
SlidingWindowStrategy_generate_ranges_skipping(window_size, order, orig, bl) ==
  Concat([k \in 1..Len(order) |->
    LET L == non_blank_line_indices(orig[order[k]], bl[order[k]])
        count == Len(L)
    IN IF count = 0 THEN <<>>
       ELSE IF count < window_size
       THEN <<>>
       ELSE [i \in 1..(count - window_size + 1) |->
               ChompRange(order[k], L[i], L[i + window_size - 1] + 1)]])

\* SlidingWindowStrategy::generate_ranges
SlidingWindowStrategy_generate_ranges(window_size, order, orig, bl) ==
  Concat([k \in 1..Len(order) |->
    LET L == non_blank_line_indices(orig[order[k]], bl[order[k]])
        count == Len(L)
    IN IF count = 0 THEN <<>>
       ELSE IF count < window_size
       THEN <<ChompRange(order[k], L[1], L[count] + 1)>>
       ELSE [i \in 1..(count - window_size + 1) |->
               ChompRange(order[k], L[i], L[i + window_size - 1] + 1)]])

\* The generator of the random strategies,
\*   *state = state.wrapping_mul(1103515245).wrapping_add(12345);
\*   (*state / 65536) % 32768
\* on a u64 state.  The value returned is bits 16..30 of the state, and the
\* low 31 bits of the next state depend on the low 31 bits of the state
\* only, so the state is kept modulo 2^31.  The arithmetic is done on
\* 15-bit limbs: no intermediate value exceeds 2^31 - 1.
Low31Max == 2147483647
Limb == 32768

\* (x + y) mod 2^31 for x, y in 0..2^31-1
AddMod31(x, y) ==
  IF x > Low31Max - y THEN (x - (Low31Max - y)) - 1 ELSE x + y

\* (1103515245 * state) mod 2^31; 1103515245 = 1 * 2^30 + 908 * 2^15 + 20077
MulMod31(state) ==
  LET s0 == state % Limb
      s1 == (state \div Limb) % Limb
      s2 == state \div (Limb * Limb)
      t1 == (20077 * s1 + 908 * s0) % (2 * Limb)
      t2 == (20077 * s2 + 908 * s1 + s0) % 2
  IN AddMod31(AddMod31(20077 * s0, t1 * Limb), t2 * Limb * Limb)

\* lcg_next: the state after the call
lcg_state(state) == AddMod31(MulMod31(state), 12345)

\* lcg_next: the value returned, from the state after the call
lcg_value(state) == (state \div 65536) % 32768

\* let mut rng_state = self.seed (the seeds used here are below 2^31)
rng_state(seed) == seed

\* the end of a range whose last line is the entry at end_idx, without the + 1
end_line_inclusive(L, end_idx) == L[end_idx]

\* let end_line = non_blank_indices[end_idx - 1] + 1 (end_idx counted from 1 here)
end_line(L, end_idx) == L[end_idx] + 1

\* RandomLinesStrategy::new and with_seed
RandomLinesStrategy_with_seed(max_attempts, seed) ==
  [name |-> "random_lines", max_attempts |-> max_attempts, seed |-> seed]
RandomLinesStrategy_new(max_attempts) == RandomLinesStrategy_with_seed(max_attempts, 12345)

\* the check of tried_lines left out
already_tried_never(key, tried) == FALSE

\* tried_lines.contains(&key)
already_tried(key, tried) == key \in tried

\* random_lines.rs, the for loop: n attempts left, generator state rng,
\* tried_lines tried, ranges pushed so far out
RECURSIVE RandomLinesAttempts(_, _, _, _, _, _, _)
RandomLinesAttempts(n, rng, tried, out, order, orig, bl) ==
  IF n = 0 THEN out
  ELSE LET r1 == lcg_state(rng)
           file_index == lcg_value(r1) % Len(order)
           path == order[file_index + 1]
           non_blank_indices == non_blank_line_indices(orig[path], bl[path])
       IN IF non_blank_indices = <<>>
          THEN RandomLinesAttempts(n - 1, r1, tried, out, order, orig, bl)
          ELSE LET r2 == lcg_state(r1)
                   idx == lcg_value(r2) % Len(non_blank_indices)
                   line == non_blank_indices[idx + 1]
                   key == <<path, line>>
               IN IF already_tried(key, tried)
                  THEN RandomLinesAttempts(n - 1, r2, tried, out, order, orig, bl)
                  ELSE RandomLinesAttempts(n - 1, r2, tried \cup {key},
                                           Append(out, ChompRange(path, line, line + 1)),
                                           order, orig, bl)

\* RandomLinesStrategy::generate_ranges
RandomLinesStrategy_generate_ranges(strategy, order, orig, bl) ==
  LET total_non_blank == SumSeq([k \in 1..Len(order) |->
                                   non_blank_lines(orig[order[k]], bl[order[k]])])
  IN IF total_non_blank = 0 THEN <<>>
     ELSE RandomLinesAttempts(Min(strategy.max_attempts, total_non_blank),
                              rng_state(strategy.seed), {}, <<>>, order, orig, bl)

\* RandomRangesStrategy::new and with_seed
RandomRangesStrategy_with_seed(max_attempts, seed) ==
  [name |-> "random_ranges", max_attempts |-> max_attempts, seed |-> seed]
RandomRangesStrategy_new(max_attempts) == RandomRangesStrategy_with_seed(max_attempts, 54321)

\* the largest size when it is half of the non-blank lines
max_size_half(count) == Max(count \div 2, 1)

\* let max_size = (count / 4).max(1)
max_size(count) == Max(count \div 4, 1)

\* random_ranges.rs, the for loop: n attempts left, generator state rng
RECURSIVE RandomRangesAttempts(_, _, _, _, _, _)
RandomRangesAttempts(n, rng, out, order, orig, bl) ==
  IF n = 0 THEN out
  ELSE LET r1 == lcg_state(rng)
           file_index == lcg_value(r1) % Len(order)
           path == order[file_index + 1]
           non_blank_indices == non_blank_line_indices(orig[path], bl[path])
           count == Len(non_blank_indices)
       IN IF count < 2
          THEN RandomRangesAttempts(n - 1, r1, out, order, orig, bl)
          ELSE LET r2 == lcg_state(r1)
                   start_idx == lcg_value(r2) % count
                   r3 == lcg_state(r2)
                   size == (lcg_value(r3) % max_size(count)) + 1
                   end_idx == Min(start_idx + size, count)
               IN IF end_idx > start_idx
                  THEN RandomRangesAttempts(n - 1, r3,
                         Append(out, ChompRange(path, non_blank_indices[start_idx + 1],
                                                end_line(non_blank_indices, end_idx))),
                         order, orig, bl)
                  ELSE RandomRangesAttempts(n - 1, r3, out, order, orig, bl)

\* RandomRangesStrategy::generate_ranges
RandomRangesStrategy_generate_ranges(strategy, order, orig, bl) ==
  IF order = <<>> THEN <<>>
  ELSE RandomRangesAttempts(strategy.max_attempts, rng_state(strategy.seed), <<>>,
                            order, orig, bl)

\* UpToNLinesStrategy::new
UpToNLinesStrategy_new(max_window_size) ==
  [name |-> "up_to_n_lines", max_window_size |-> Max(max_window_size, 1)]

\* generate_ranges with the loops exchanged: every window size of a file
\* before the next file
UpToNLinesStrategy_generate_ranges_by_file(strategy, order, orig, bl) ==
  Concat([k \in 1..Len(order) |->
    Concat([window_size \in 1..strategy.max_window_size |->
      LET non_blank_indices == non_blank_line_indices(orig[order[k]], bl[order[k]])
      IN IF non_blank_indices = <<>> \/ window_size > Len(non_blank_indices) THEN <<>>
         ELSE [i \in 1..(Len(non_blank_indices) - window_size + 1) |->
                 ChompRange(order[k], non_blank_indices[i],
                            end_line(non_blank_indices, i + window_size - 1))]])])

\* UpToNLinesStrategy::generate_ranges
UpToNLinesStrategy_generate_ranges(strategy, order, orig, bl) ==
  Concat([window_size \in 1..strategy.max_window_size |->
    Concat([k \in 1..Len(order) |->
      LET non_blank_indices == non_blank_line_indices(orig[order[k]], bl[order[k]])
      IN IF non_blank_indices = <<>> \/ window_size > Len(non_blank_indices) THEN <<>>
         ELSE [i \in 1..(Len(non_blank_indices) - window_size + 1) |->
                 ChompRange(order[k], non_blank_indices[i],
                            end_line(non_blank_indices, i + window_size - 1))]])])

\* parse_strategies: one strategy value per name
StrategyNames == {"bisection", "sliding_window"}
Strategy(name, window_size) ==
  [name |-> name,
   window_size |-> IF name = "sliding_window" THEN SlidingWindowStrategy_new(window_size) ELSE 0]
parse_strategies(names, window_size) ==
  [i \in 1..Len(names) |-> Strategy(names[i], window_size)]

\* Strategy::generate_ranges, dispatched on the strategy value
generate_ranges(strategy, order, orig, bl) ==
  IF strategy.name = "bisection"
  THEN BisectionStrategy_generate_ranges(order, orig, bl)
  ELSE IF strategy.name = "random_lines"
  THEN RandomLinesStrategy_generate_ranges(strategy, order, orig, bl)
  ELSE IF strategy.name = "random_ranges"
  THEN RandomRangesStrategy_generate_ranges(strategy, order, orig, bl)
  ELSE IF strategy.name = "up_to_n_lines"
  THEN UpToNLinesStrategy_generate_ranges(strategy, order, orig, bl)
  ELSE SlidingWindowStrategy_generate_ranges(strategy.window_size, order, orig, bl)

----------------------------------------------------------------------------
(* chomper.rs *)

\* sort of the per-file key strings: they start with the path
RECURSIVE SortByPath(_)
SortByPath(S) ==
  IF S = {} THEN <<>>
  ELSE LET m == CHOOSE x \in S : \A y \in S : x[1] <= y[1]
       IN <<m>> \o SortByPath(S \ {m})

\* Chomper::get_state_key: per file "path:blanked" with the blanked indices
\* in the iteration order of the HashSet, the strings sorted and joined
get_state_key(order, bl) ==
  SortByPath({<<order[k], bl[order[k]]>> : k \in 1..Len(order)})

\* is_state_tested without the memo
is_state_tested_never(order, bl, memo) == FALSE

\* Chomper::is_state_tested
is_state_tested(order, bl, memo) == get_state_key(order, bl) \in memo

\* mark_state_tested that inserts nothing
mark_state_tested_nothing(order, bl, memo) == memo

\* Chomper::mark_state_tested
mark_state_tested(order, bl, memo) == memo \cup {get_state_key(order, bl)}

\* (range.start_line..range.end_line).collect()
lines_to_blank(r) == [i \in 1..(r.end_line - r.start_line) |-> r.start_line + i - 1]

NoResult == [stdout |-> <<>>, stderr |-> <<>>, exit_code |-> 0]

\* what the environment does to one try_blank_range call: nothing, the
\* shell of the command cannot be spawned ("launch"), or fs::write fails on
\* the at-th file of the iteration, in the write_all after the blanking
\* ("write") or in the write_all after the unblanking ("rewrite")
NoFault == [kind |-> "none", at |-> 0]
LaunchFaults == {[kind |-> "launch", at |-> 0]}
WriteFaults(order) ==
  {[kind |-> k, at |-> i] : k \in {"write", "rewrite"}, i \in 1..Len(order)}

\* FileManager::write_all when fs::write fails on the at-th file of the
\* iteration: the files before it are written, the others are as they were
write_all_failing(order, orig, bl, d, at) ==
  [p \in DOMAIN d |->
     IF \E j \in 1..(at - 1) : order[j] = p
     THEN current_content(orig[p], bl[p]) ELSE d[p]]

\* what one try_blank_range call did and returned; oracle_disk and oracle_mem
\* are the files on disk and the blanked sets in memory when the command ran
Outcome(ret, short, bl, d, memo, ran, odisk, omem, okey, result, writes) ==
  [ret |-> ret, short |-> short, blanked_lines |-> bl, disk |-> d,
   tested_states |-> memo, ran |-> ran, oracle_disk |-> odisk,
   oracle_mem |-> omem, oracle_key |-> okey, result |-> result, writes |-> writes]

\* the comparison with the baseline left out: every result is taken as a match
matches_baseline_unchecked(result, base) == TRUE

\* the comparison with the baseline (false without a baseline)
matches_baseline(result, base) ==
  IF base # <<>> THEN is_identical(result, base[1]) ELSE FALSE

\* the file lookup of try_blank_range, with the files written before it fails
FileNotFound_after_write(orig, bl, d, memo) ==
  Outcome("err", FALSE, bl, write_all(orig, bl), memo, FALSE, d, BlankedSets(bl), <<>>,
          NoResult, 1)

\* try_blank_range when get_file_mut finds no file: bail!("File not found")
FileNotFound(orig, bl, d, memo) ==
  Outcome("err", FALSE, bl, d, memo, FALSE, d, BlankedSets(bl), <<>>, NoResult, 0)

\* the memo check of try_blank_range answering Ok(true)
ShortCircuit_true(orig, bl, d, memo) ==
  Outcome("true", TRUE, bl, d, memo, FALSE, d, BlankedSets(bl), <<>>, NoResult, 0)

\* try_blank_range when is_state_tested: return Ok(false)
ShortCircuit(orig, bl, d, memo) ==
  Outcome("false", TRUE, bl, d, memo, FALSE, d, BlankedSets(bl), <<>>, NoResult, 0)

\* the files the command sees when run precedes write_all
OracleDisk_before_write(d, d1) == d

\* the files the command sees: write_all (giving d1) precedes run
OracleDisk(d, d1) == d1

\* try_blank_range from the blanking on, the blanked set of the file of the
\* range being s1 after blank_lines
AfterBlank(order, orig, bl, d, memo, base, cmd, r, fault, s1) ==
  LET bl1 == [bl EXCEPT ![r.file] = s1]
      d1 == write_all(orig, bl1)
      seen == OracleDisk(d, d1)
      mem1 == BlankedSets(bl1)
      result == run(cmd, seen)
      key1 == get_state_key(order, bl1)
      memo1 == mark_state_tested(order, bl1, memo)
      bl2 == [bl1 EXCEPT ![r.file] = unblank_lines(bl1[r.file], lines_to_blank(r))]
  IN IF fault.kind = "write"
     THEN {Outcome("err", FALSE, bl1, write_all_failing(order, orig, bl1, d, fault.at),
                   memo, FALSE, d, mem1, <<>>, NoResult, 0)}
     ELSE IF fault.kind = "launch"
     THEN {Outcome("err", FALSE, bl1, d1, memo, FALSE, d1, mem1, <<>>, NoResult, 1)}
     ELSE IF matches_baseline(result, base)
     THEN IF fault.kind = "none"
          THEN {Outcome("true", FALSE, bl1, d1, memo1, TRUE, seen, mem1, key1, result, 1)}
          ELSE {}
     ELSE IF fault.kind = "rewrite"
     THEN {Outcome("err", FALSE, bl2, write_all_failing(order, orig, bl2, d1, fault.at),
                   memo1, TRUE, seen, mem1, key1, result, 1)}
     ELSE {Outcome("false", FALSE, bl2, write_all(orig, bl2), memo1, TRUE, seen, mem1,
                   key1, result, 2)}

\* Chomper::try_blank_range(range): the set of outcomes of one call made
\* with file states (orig, bl), disk d and memo, under a fault of the
\* environment; no outcome when the call does not reach the faulty step
try_blank_range(order, orig, bl, d, memo, base, cmd, r, fault) ==
  IF is_state_tested(order, bl, memo)
  THEN IF fault.kind = "none" THEN {ShortCircuit(orig, bl, d, memo)} ELSE {}
  ELSE IF r.file \notin DOMAIN orig
  THEN IF fault.kind = "none" THEN {FileNotFound(orig, bl, d, memo)} ELSE {}
  ELSE UNION {AfterBlank(order, orig, bl, d, memo, base, cmd, r, fault, s1) :
                s1 \in blank_lines(bl[r.file], lines_to_blank(r), total_lines(orig[r.file]))}

\* the record kept of a call: the state before it and what it did
CallRecord(r, o, fault) ==
  [called |-> TRUE, range |-> r, ret |-> o.ret, short |-> o.short,
   fault |-> fault.kind, had_baseline |-> baseline_result # <<>>,
   pre_key |-> get_state_key(file_order, blanked_lines),
   after_success |-> last_call.after_success \/ last_call.ret = "true",
   prev |-> [ret |-> last_call.ret, ran |-> last_call.ran, range |-> last_call.range,
             had_baseline |-> last_call.had_baseline,
             pre_blanked |-> last_call.pre_blanked],
   pre_blanked |-> BlankedSets(blanked_lines), pre_disk |-> disk,
   pre_tested |-> tested_states,
   pre_non_blank |-> NonBlankTotal(original_lines, blanked_lines),
   post_non_blank |-> NonBlankTotal(original_lines, o.blanked_lines),
   ran |-> o.ran, oracle_disk |-> o.oracle_disk, oracle_mem |-> o.oracle_mem,
   oracle_key |-> o.oracle_key, result |-> o.result, writes |-> o.writes]

NoCall ==
  [called |-> FALSE, range |-> ChompRange(0, 0, 0), ret |-> "none", short |-> FALSE,
   fault |-> "none", had_baseline |-> FALSE, pre_key |-> <<>>, after_success |-> FALSE,
   prev |-> [ret |-> "none", ran |-> FALSE, range |-> ChompRange(0, 0, 0),
             had_baseline |-> FALSE, pre_blanked |-> <<>>],
   pre_blanked |-> <<>>, pre_disk |-> <<>>, pre_tested |-> {}, pre_non_blank |-> 0,
   post_non_blank |-> 0,
   ran |-> FALSE, oracle_disk |-> <<>>, oracle_mem |-> <<>>, oracle_key |-> <<>>,
   result |-> NoResult, writes |-> 0]

----------------------------------------------------------------------------
(* Inputs *)

\* the lines files are made of
LineSet == {<<>>, <<"a">>, <<"m">>}

\* the contents of k segments separated by line feeds; a last empty segment
\* is a content that ends with a line feed
ContentsOf(k) == {join(segs) : segs \in [1..k -> LineSet]}
Contents(n) == UNION {ContentsOf(k) : k \in 1..n}

\* the five-line file of scenario C
ScenarioContents == {<<"a", LF, "m", LF, "a", LF, "a", LF, "a">>}

\* a four-line file: bisection proposes [0,2) and [2,4), then [0,1) and [1,2)
OverlapContents == {<<"a", LF, "a", LF, "m", LF, "a">>}

\* the number of segments of each managed file, by path
SegCounts(n) ==
  {c \in UNION {[1..k -> 1..n] : k \in 1..MaxFiles} : SumSeq(c) <= n}

RECURSIVE FilesOf(_, _)
FilesOf(c, i) ==
  IF i = 0 THEN {<<>>}
  ELSE {Append(cs, x) : cs \in FilesOf(c, i - 1), x \in ContentsOf(c[i])}

\* the contents of the managed files, by path
FileSets(n) == UNION {FilesOf(c, Len(c)) : c \in SegCounts(n)}

StrategyLists == UNION {[1..k -> StrategyNames] : k \in 1..MaxStrategies}

----------------------------------------------------------------------------
(* main.rs: run_chomp, from the scan of the directory on *)

\* the state after add_directory, Chomper::new and parse_strategies
Setup(cs, cmd, strats, order, start) ==
  /\ content_read = cs
  /\ disk = cs
  /\ original_lines = [p \in 1..Len(cs) |-> FileState_new(cs[p])]
  /\ blanked_lines = [p \in 1..Len(cs) |-> <<>>]
  /\ file_order = order
  /\ command = cmd
  /\ baseline_result = <<>>
  /\ tested_states = {}
  /\ strategies = strats
  /\ pc = start
  /\ round = 0
  /\ round_successful = 0
  /\ total_successful = 0
  /\ strat_idx = 0
  /\ ranges = <<>>
  /\ successful = 0
  /\ initial_lines = NonBlankTotal([p \in 1..Len(cs) |-> FileState_new(cs[p])],
                                   [p \in 1..Len(cs) |-> <<>>])
  /\ last_call = NoCall
  /\ oracle_log = <<>>
  /\ calls = 0
  /\ faults = 0
  /\ ops = <<>>

Init ==
  \E cs \in FileSets(MaxSegs) \cup {<<c>> : c \in ScenarioContents},
     cmd \in Commands, names \in StrategyLists, w \in 1..MaxWindow :
    \E order \in Perms(1..Len(cs)) :
      Setup(cs, cmd, parse_strategies(names, w), order, "start")

\* Chomper::establish_baseline
establish_baseline(next) ==
  /\ baseline_result' = <<run(command, disk)>>
  /\ pc' = next
  /\ UNCHANGED <<content_read, original_lines, blanked_lines, file_order, disk, command,
                 tested_states, strategies, round, round_successful, total_successful,
                 strat_idx, ranges, successful, initial_lines, last_call, oracle_log,
                 calls, faults, ops>>

EstablishBaseline ==
  /\ pc = "start"
  /\ establish_baseline("loop")

\* establish_baseline when sh cannot be spawned: Command::output() fails, the
\* error propagates through run_chomp and the process exits
EstablishBaselineLaunchFailure ==
  /\ pc = "start"
  /\ faults < MaxFaults
  /\ faults' = faults + 1
  /\ pc' = "failed"
  /\ UNCHANGED <<content_read, original_lines, blanked_lines, file_order, disk, command,
                 baseline_result, tested_states, strategies, round, round_successful,
                 total_successful, strat_idx, ranges, successful, initial_lines,
                 last_call, oracle_log, calls, ops>>

\* the exit test of the round loop, inverted
NoProgress_inverted(n) == n # 0

\* the exit test of the round loop
NoProgress(n) == n = 0

\* loop { round += 1; let mut round_successful = 0; for strategy in ...
RoundStart ==
  /\ pc = "loop"
  /\ round < MaxRounds
  /\ round' = round + 1
  /\ round_successful' = 0
  /\ strat_idx' = 1
  /\ pc' = "strategy"
  /\ UNCHANGED <<content_read, original_lines, blanked_lines, file_order, disk, command,
                 baseline_result, tested_states, strategies, total_successful, ranges,
                 successful, initial_lines, last_call, oracle_log, calls, faults, ops>>

\* execute_strategy, entry: the ranges are generated once, from the file
\* states as they are now
ExecuteStrategy ==
  /\ pc = "strategy"
  /\ strat_idx <= Len(strategies)
  /\ ranges' = generate_ranges(strategies[strat_idx], file_order, original_lines,
                               blanked_lines)
  /\ successful' = 0
  /\ pc' = "try"
  /\ UNCHANGED <<content_read, original_lines, blanked_lines, file_order, disk, command,
                 baseline_result, tested_states, strategies, round, round_successful,
                 total_successful, strat_idx, initial_lines, last_call, oracle_log,
                 calls, faults, ops>>

\* the effect of one try_blank_range call with outcome o on the engine
ApplyOutcome(r, o, fault) ==
  /\ blanked_lines' = o.blanked_lines
  /\ disk' = o.disk
  /\ tested_states' = o.tested_states
  /\ last_call' = CallRecord(r, o, fault)
  /\ oracle_log' = IF o.ran THEN Append(oracle_log, o.oracle_key) ELSE oracle_log
  /\ faults' = IF fault.kind = "none" THEN faults ELSE faults + 1

\* the match of execute_strategy with the error arm counted as a success
CountAttempt_errors_too(n, ret) == IF ret = "false" THEN n ELSE n + 1

\* match self.try_blank_range(range): Ok(true) => successful += 1,
\* Ok(false) => {}, Err(e) => eprintln!
CountAttempt(n, ret) == IF ret = "true" THEN n + 1 ELSE n

\* execute_strategy, loop body: try_blank_range on the next range; whatever
\* it returns the for loop goes on with the range after it
Attempt(fault) ==
  /\ pc = "try"
  /\ ranges # <<>>
  /\ \E o \in try_blank_range(file_order, original_lines, blanked_lines, disk,
                              tested_states, baseline_result, command, Head(ranges), fault) :
       /\ ApplyOutcome(Head(ranges), o, fault)
       /\ successful' = CountAttempt(successful, o.ret)
  /\ ranges' = Tail(ranges)
  /\ UNCHANGED <<content_read, original_lines, file_order, command, baseline_result,
                 strategies, pc, round, round_successful, total_successful, strat_idx,
                 initial_lines, calls, ops>>

TryNextRange == Attempt(NoFault)

\* the attempt when sh cannot be spawned
TryNextRangeLaunchFailure ==
  /\ faults < MaxFaults
  /\ \E f \in LaunchFaults : Attempt(f)

\* the attempt when fs::write fails in one of its write_all calls
TryNextRangeWriteFailure ==
  /\ faults < MaxFaults
  /\ \E f \in WriteFaults(file_order) : Attempt(f)

\* execute_strategy returns; round_successful += successful
StrategyDone ==
  /\ pc = "try"
  /\ ranges = <<>>
  /\ round_successful' = round_successful + successful
  /\ total_successful' = total_successful + successful
  /\ strat_idx' = strat_idx + 1
  /\ pc' = "strategy"
  /\ UNCHANGED <<content_read, original_lines, blanked_lines, file_order, disk, command,
                 baseline_result, tested_states, strategies, round, ranges, successful,
                 initial_lines, last_call, oracle_log, calls, faults, ops>>

\* if round_successful == 0 { break; }
RoundEnd ==
  /\ pc = "strategy"
  /\ strat_idx > Len(strategies)
  /\ pc' = IF NoProgress(round_successful) THEN "done" ELSE "loop"
  /\ UNCHANGED <<content_read, original_lines, blanked_lines, file_order, disk, command,
                 baseline_result, tested_states, strategies, round, round_successful,
                 total_successful, strat_idx, ranges, successful, initial_lines,
                 last_call, oracle_log, calls, faults, ops>>

Next ==
  \/ EstablishBaseline
  \/ RoundStart
  \/ ExecuteStrategy
  \/ TryNextRange
  \/ StrategyDone
  \/ RoundEnd

Spec == Init /\ [][Next]_vars

\* The termination check: one managed file.  The round loop is sequential
\* code, it keeps running until it returns: weak fairness of Next.
TermInit ==
  \E c \in Contents(MaxTermSegs), cmd \in Commands, names \in StrategyLists,
     w \in 1..MaxWindow :
    Setup(<<c>>, cmd, parse_strategies(names, w), <<1>>, "start")

TermSpec == TermInit /\ [][Next]_vars /\ WF_vars(Next)

\* The run in an environment that can fail: sh cannot be spawned, or
\* fs::write fails, at most MaxFaults times.
FaultInit ==
  \E cs \in FileSets(MaxFaultSegs) \cup {<<c>> : c \in OverlapContents},
     cmd \in Commands, names \in StrategyLists, w \in 1..MaxWindow :
    \E order \in Perms(1..Len(cs)) :
      Setup(cs, cmd, parse_strategies(names, w), order, "start")

FaultNext ==
  \/ Next
  \/ EstablishBaselineLaunchFailure
  \/ TryNextRangeLaunchFailure
  \/ TryNextRangeWriteFailure

FaultSpec == FaultInit /\ [][FaultNext]_vars

----------------------------------------------------------------------------
(* A caller that uses the engine directly: establish_baseline, then         *)
(* try_blank_range with ranges of its own, as execute_strategy does after   *)
(* an error (it logs the error and goes on with the next range).            *)

ApiInit ==
  \E cs \in FileSets(MaxApiSegs), cmd \in Commands :
    \E order \in Perms(1..Len(cs)) :
      Setup(cs, cmd, <<>>, order, "api_start")

ApiEstablishBaseline ==
  /\ pc = "api_start"
  /\ establish_baseline("api")

\* a path that is not in the managed set
UnknownPath == 0

\* the ranges a caller can pass: any start < end, the end up to one past the
\* file, of a managed file or of an unknown one
ApiRanges ==
  {ChompRange(p, s, e) : p \in Paths \cup {UnknownPath}, s \in 0..MaxApiSegs,
                         e \in 1..(MaxApiSegs + 1)}

\* try_blank_range(r) called by the caller, before or after establish_baseline
ApiTry(r, fault) ==
  /\ pc \in {"api_start", "api"}
  /\ calls < MaxCalls
  /\ r.start_line < r.end_line
  /\ r.file \in Paths => r.end_line <= total_lines(original_lines[r.file]) + 1
  /\ \E o \in try_blank_range(file_order, original_lines, blanked_lines, disk,
                              tested_states, baseline_result, command, r, fault) :
       ApplyOutcome(r, o, fault)
  /\ calls' = calls + 1
  /\ UNCHANGED <<content_read, original_lines, file_order, command, baseline_result,
                 strategies, pc, round, round_successful, total_successful, strat_idx,
                 ranges, successful, initial_lines, ops>>

\* try_blank_range(r), no fault of the environment
ApiTryBlankRange == \E r \in ApiRanges : ApiTry(r, NoFault)

\* try_blank_range(r) when sh cannot be spawned: Command::output() fails
ApiTryBlankRangeLaunchFailure ==
  /\ faults < MaxFaults
  /\ \E r \in ApiRanges, f \in LaunchFaults : ApiTry(r, f)

\* try_blank_range(r) when fs::write fails in one of its write_all calls
ApiTryBlankRangeWriteFailure ==
  /\ faults < MaxFaults
  /\ \E r \in ApiRanges, f \in WriteFaults(file_order) : ApiTry(r, f)

ApiNext ==
  \/ ApiEstablishBaseline
  \/ ApiTryBlankRange
  \/ ApiTryBlankRangeLaunchFailure
  \/ ApiTryBlankRangeWriteFailure

ApiSpec == ApiInit /\ [][ApiNext]_vars

----------------------------------------------------------------------------
(* A user of FileManager: add_file on every file, then blank_lines and      *)
(* unblank_lines on the file states (through get_file_mut), write_all and   *)
(* restore_all, in any order.                                               *)

FileInit ==
  \E cs \in FileSets(MaxFileSegs) :
    \E order \in Perms(1..Len(cs)) :
      Setup(cs, "cat", <<>>, order, "files")

\* the entry of ops for one call: `before` is the current_content of every
\* file when the call is made
Op(name, file, ls) ==
  [op |-> name, file |-> file, lines |-> ls,
   before |-> write_all(original_lines, blanked_lines)]

\* the index lists a user can pass for file p: any indices up to one past the end
LineLists(p) ==
  {SortedSeq(S) : S \in SUBSET (0..total_lines(original_lines[p])) \ {{}}}

\* what a call on the file states leaves alone
FileCall(op) ==
  /\ pc = "files"
  /\ Len(ops) < MaxOps
  /\ ops' = Append(ops, op)
  /\ UNCHANGED <<content_read, original_lines, file_order, command, baseline_result,
                 tested_states, strategies, pc, round, round_successful, total_successful,
                 strat_idx, ranges, successful, initial_lines, last_call, oracle_log,
                 calls, faults>>

\* get_file_mut(p).blank_lines(ls)
FileBlankLines ==
  \E p \in Paths : \E ls \in LineLists(p) :
    /\ FileCall(Op("blank_lines", p, ls))
    /\ \E s \in blank_lines(blanked_lines[p], ls, total_lines(original_lines[p])) :
         blanked_lines' = [blanked_lines EXCEPT ![p] = s]
    /\ UNCHANGED disk

\* get_file_mut(p).unblank_lines(ls)
FileUnblankLines ==
  \E p \in Paths : \E ls \in LineLists(p) :
    /\ FileCall(Op("unblank_lines", p, ls))
    /\ blanked_lines' = [blanked_lines EXCEPT ![p] = unblank_lines(blanked_lines[p], ls)]
    /\ UNCHANGED disk

\* FileManager::write_all
FileWriteAll ==
  /\ FileCall(Op("write_all", 0, <<>>))
  /\ disk' = write_all(original_lines, blanked_lines)
  /\ UNCHANGED blanked_lines

\* FileManager::restore_all
FileRestoreAll ==
  /\ FileCall(Op("restore_all", 0, <<>>))
  /\ disk' = restore_all(original_lines)
  /\ UNCHANGED blanked_lines

FileNext ==
  \/ FileBlankLines
  \/ FileUnblankLines
  \/ FileWriteAll
  \/ FileRestoreAll

FileSpec == FileInit /\ [][FileNext]_vars

----------------------------------------------------------------------------
(* A caller of Strategy::generate_ranges: file states with any lines        *)
(* blanked, a strategy value, and generate_ranges called on them.           *)

\* the number of lines of each file, by path
GenLineCounts ==
  {<<n>> : n \in 0..MaxGenLines}
    \cup UNION {[1..k -> 0..MaxGenFileLines] : k \in 2..MaxFiles}

\* the blanked sets of files 1..i with counts[p] lines each
RECURSIVE BlankedChoices(_, _)
BlankedChoices(counts, i) ==
  IF i = 0 THEN {<<>>}
  ELSE {Append(b, SortedSeq(S)) : b \in BlankedChoices(counts, i - 1),
                                  S \in SUBSET (0..(counts[i] - 1))}

\* the seeds given to with_seed, the two of new among them
Seeds == {12345, 54321, 42}

\* the strategy values: every constructor with every parameter
GenStrategies ==
  {Strategy("bisection", 1)}
    \cup {Strategy("sliding_window", w) : w \in 0..MaxGenWindow}
    \cup {UpToNLinesStrategy_new(n) : n \in 0..MaxGenWindow}
    \cup {RandomLinesStrategy_with_seed(m, seed) : m \in 0..MaxAttempts, seed \in Seeds}
    \cup {RandomRangesStrategy_with_seed(m, seed) : m \in 0..MaxAttempts, seed \in Seeds}

GenInit ==
  \E counts \in GenLineCounts, strategy \in GenStrategies :
    \E order \in Perms(1..Len(counts)), bl \in BlankedChoices(counts, Len(counts)) :
      LET cs == [p \in 1..Len(counts) |-> join([i \in 1..counts[p] |-> <<"a">>])]
          orig == [p \in 1..Len(cs) |-> FileState_new(cs[p])]
      IN /\ content_read = cs
         /\ disk = cs
         /\ original_lines = orig
         /\ blanked_lines = bl
         /\ file_order = order
         /\ command = "cat"
         /\ baseline_result = <<>>
         /\ tested_states = {}
         /\ strategies = <<strategy>>
         /\ pc = "gen"
         /\ round = 0
         /\ round_successful = 0
         /\ total_successful = 0
         /\ strat_idx = 1
         /\ ranges = <<>>
         /\ successful = 0
         /\ initial_lines = NonBlankTotal(orig, bl)
         /\ last_call = NoCall
         /\ oracle_log = <<>>
         /\ calls = 0
         /\ faults = 0
         /\ ops = <<>>

\* strategy.generate_ranges(files): the strategy value and the file states
\* are borrowed immutably, the ranges are returned
GenerateRanges ==
  /\ pc = "gen"
  /\ calls < MaxGenCalls
  /\ ranges' = generate_ranges(strategies[strat_idx], file_order, original_lines,
                               blanked_lines)
  /\ ops' = Append(ops, [op |-> "generate_ranges", strategy |-> strategies[strat_idx],
                         result |-> ranges'])
  /\ calls' = calls + 1
  /\ UNCHANGED <<content_read, original_lines, blanked_lines, file_order, disk, command,
                 baseline_result, tested_states, strategies, pc, round, round_successful,
                 total_successful, strat_idx, successful, initial_lines, last_call,
                 oracle_log, faults>>

\* the same file states held by another HashMap (another FileManager filled
\* by add_file with the same files, or the next run of the program): every
\* HashMap has hash keys of its own, its iteration order is any order
OtherHashMap ==
  /\ pc = "gen"
  /\ calls > 0
  /\ calls < MaxGenCalls
  /\ \E order \in Perms(Paths) \ {file_order} : file_order' = order
  /\ UNCHANGED <<content_read, original_lines, blanked_lines, disk, command,
                 baseline_result, tested_states, strategies, pc, round, round_successful,
                 total_successful, strat_idx, ranges, successful, initial_lines, last_call,
                 oracle_log, calls, faults, ops>>

GenNext ==
  \/ GenerateRanges
  \/ OtherHashMap

GenSpec == GenInit /\ [][GenNext]_vars

----------------------------------------------------------------------------
(* Properties *)

NonBlank == NonBlankTotal(original_lines, blanked_lines)

\* the latest try_blank_range call returned Ok(true) / Ok(false)
ReturnedTrue == last_call.called /\ last_call.ret = "true"
ReturnedFalse == last_call.called /\ last_call.ret = "false"

\* the calls that returned Ok(true) so far in a run of run_chomp
TrueReturns == total_successful + (IF pc = "try" THEN successful ELSE 0)

\* the blanked set of file p once the range of the latest call is blanked
PostBlank(p) ==
  IF p = last_call.range.file
  THEN last_call.pre_blanked[p] \cup
         {i \in last_call.range.start_line..(last_call.range.end_line - 1) :
            i < total_lines(original_lines[p])}
  ELSE last_call.pre_blanked[p]

\* scenario A: one file of three lines, a command that ignores the files,
\* bisection only
ScenarioA ==
  /\ Len(original_lines) = 1
  /\ Len(original_lines[1]) = 3
  /\ \A i \in 1..3 : original_lines[1][i] # <<>>
  /\ content_read[1] = join(original_lines[1])
  /\ command = "echo"
  /\ strategies = parse_strategies(<<"bisection">>, 1)

\* scenario C: five lines, grep -c m counts the one line that matters
\* (line 1); bisection, then the sliding window of one line
ScenarioC ==
  /\ content_read = <<(<<"a", LF, "m", LF, "a", LF, "a", LF, "a">>)>>
  /\ command = "grep_c"
  /\ strategies = parse_strategies(<<"bisection", "sliding_window">>, 1)

\* C1: scenario A ends with every line blanked: no non-blank line is left and
\* the file holds two line feeds.
C1_ScenarioA_AllBlanked ==
  (ScenarioA /\ pc = "done") => (NonBlank = 0 /\ disk[1] = <<LF, LF>>)

\* C2: scenario C ends with lines 0, 2, 3 and 4 blanked and only line 1 left.
C2_ScenarioC_OnlyMattersLeft ==
  (ScenarioC /\ pc = "done") => (Range(blanked_lines[1]) = {0, 2, 3, 4} /\ NonBlank = 1)

\* C3: when the run has ended, the command run on the files as they are on
\* disk gives the baseline result.
C3_FinalResultIsBaseline ==
  pc = "done" =>
    LET final == run(command, disk)
    IN /\ final.stdout = baseline_result[1].stdout
       /\ final.stderr = baseline_result[1].stderr
       /\ final.exit_code = baseline_result[1].exit_code

\* C4: after a try_blank_range call that returned false, every file on disk
\* is as it was at the instant of the call.
C4_RevertOnDisk == ReturnedFalse => disk = last_call.pre_disk

\* C5: after a try_blank_range call that returned false, the blanked set of
\* every file is the one it was before the call.
C5_RevertInMemory == ReturnedFalse => BlankedSets(blanked_lines) = last_call.pre_blanked

\* C6: the command is never run twice by try_blank_range under the same
\* state key.
C6_MemoSoundness ==
  \A i, j \in 1..Len(oracle_log) : i # j => oracle_log[i] # oracle_log[j]

\* C7: a try_blank_range call that returned true ran the command on the
\* files written with the range blanked, and its result has the stdout, the
\* stderr and the exit code of the baseline.
C7_BaselineFidelity ==
  ReturnedTrue =>
    /\ last_call.ran
    /\ \A p \in Paths :
         last_call.oracle_disk[p] = current_content(original_lines[p], SortedSeq(PostBlank(p)))
    /\ last_call.result = run(command, last_call.oracle_disk)
    /\ last_call.result.stdout = baseline_result[1].stdout
    /\ last_call.result.stderr = baseline_result[1].stderr
    /\ last_call.result.exit_code = baseline_result[1].exit_code

\* a call returned true for a command whose result depends on the files
C7_Witness ==
  /\ ReturnedTrue
  /\ command = "grep_q"
  /\ last_call.post_non_blank < last_call.pre_non_blank

\* C8: no try_blank_range call, whatever it returns, raises the number of
\* non-blank lines.
C8_MonotoneProgress ==
  [][NonBlankTotal(original_lines, blanked_lines')
       <= NonBlankTotal(original_lines, blanked_lines)]_vars

\* C9: the round loop ends, and it runs at most initial_lines + 1 rounds.
C9_Termination == <>(pc = "done") /\ [](round <= initial_lines + 1)

\* a run that ended after initial_lines + 1 rounds, the last one without progress
C9_Witness == pc = "done" /\ round = initial_lines + 1 /\ round = 2

\* C10: in a run of run_chomp a try_blank_range call that returns true leaves
\* fewer non-blank lines than there were, and at most initial_lines calls
\* return true.
C10_SuccessDecreases ==
  /\ ReturnedTrue => last_call.post_non_blank < last_call.pre_non_blank
  /\ TrueReturns <= initial_lines

\* C11: after a try_blank_range call that returned true or false (also at the
\* memo check), every file on disk holds the rendering of its file state.
C11_DiskMatchesMemory ==
  (ReturnedTrue \/ ReturnedFalse) => disk = write_all(original_lines, blanked_lines)

\* every blanking configuration of the managed files
Configurations ==
  {b \in [Paths -> UNION {{SortedSeq(S) : S \in SUBSET (0..(Len(original_lines[p]) - 1))}
                           : p \in Paths}] :
     \A p \in Paths : \A i \in Range(b[p]) : i < Len(original_lines[p])}

\* the command run on the files of configuration b gives the baseline result
Reproduces(b) ==
  is_identical(run(command, write_all(original_lines, b)), baseline_result[1])

\* C12: when the run has ended, no configuration with fewer non-blank lines
\* than the final one gives the baseline result.
C12_SmallestSubset ==
  pc = "done" =>
    ~\E b \in Configurations :
       /\ NonBlankTotal(original_lines, b) < NonBlank
       /\ Reproduces(b)

\* C13: a try_blank_range call made before establish_baseline returns an
\* error, writes no file and does not run the command.
C13_MissingBaselineFatal ==
  (last_call.called /\ ~last_call.had_baseline) =>
    (last_call.ret = "err" /\ last_call.writes = 0 /\ ~last_call.ran)

\* the latest call named a file that is not managed, in a state whose key
\* was not in the memo
UnknownFileCall ==
  /\ last_call.called
  /\ last_call.range.file \notin Paths
  /\ ~last_call.short

\* C14: a try_blank_range call for a file that is not managed, made in a
\* state whose key is not memoized, returns an error and changes no blanked
\* set, no file on disk and no memo entry, and does not run the command.
C14_UnknownFile ==
  UnknownFileCall =>
    /\ last_call.ret = "err"
    /\ BlankedSets(blanked_lines) = last_call.pre_blanked
    /\ disk = last_call.pre_disk
    /\ tested_states = last_call.pre_tested
    /\ ~last_call.ran
    /\ last_call.writes = 0

\* an unknown-file call made when the disk differs from the rendering of the
\* file states (the file as read ended with a line feed) and lines are blanked
C14_Witness ==
  /\ UnknownFileCall
  /\ disk # write_all(original_lines, blanked_lines)
  /\ last_call.had_baseline

\* C15: once a try_blank_range call of a run has failed to launch the
\* command, the run makes no further call.
C15_LaunchFailureFatal ==
  [][(last_call.called /\ last_call.fault = "launch") => last_call' = last_call]_vars

\* C16: in execute_strategy every range is attempted in order whatever the
\* attempt before it returned, an error included; successful grows by one
\* exactly when an attempt returns true, and it is the count returned.
C16_ErrorsDoNotAbort ==
  [][/\ (pc = "try" /\ ranges # <<>>) =>
          /\ pc' = "try"
          /\ ranges' = Tail(ranges)
          /\ last_call'.called /\ last_call'.range = Head(ranges)
          /\ successful' = successful + (IF last_call'.ret = "true" THEN 1 ELSE 0)
     /\ (pc = "try" /\ ranges = <<>>) =>
          /\ round_successful' = round_successful + successful
          /\ total_successful' = total_successful + successful]_vars

\* after an attempt that returned an error and left its range blanked, a
\* later attempt of the same strategy returned true and was counted
C16_Witness ==
  /\ pc = "try"
  /\ ReturnedTrue
  /\ faults = 1
  /\ successful = 1
  /\ last_call.post_non_blank = last_call.pre_non_blank

\* the blanked sets of b in every iteration order of their HashSets
Layouts(b) ==
  {c \in [DOMAIN b -> UNION {Perms(Range(b[p])) : p \in DOMAIN b}] :
     \A p \in DOMAIN b : Range(c[p]) = Range(b[p]) /\ Len(c[p]) = Len(b[p])}

\* C17: the state key depends on the paths and the blanked index sets only:
\* it is the same for every iteration order of the blanked sets and of the
\* file map.
C17_StateKeyCanonicity ==
  \A o \in Perms(Paths), c \in Layouts(blanked_lines) :
    get_state_key(o, c) = get_state_key(file_order, blanked_lines)

\* the latest call named a managed file and an end beyond its last line
BeyondEndCall ==
  /\ last_call.called
  /\ last_call.range.file \in Paths
  /\ last_call.range.end_line > total_lines(original_lines[last_call.range.file])

\* C18: every blanked index is the index of an original line, non_blank_lines
\* is the number of lines that are not blanked (it does not underflow), and
\* a call with a range that ends beyond the file raises no error of its own.
C18_BlankedInRange ==
  /\ \A p \in Paths :
       /\ \A i \in Range(blanked_lines[p]) :
            0 <= i /\ i < total_lines(original_lines[p])
       /\ Cardinality(Range(blanked_lines[p])) = Len(blanked_lines[p])
       /\ non_blank_lines(original_lines[p], blanked_lines[p]) >= 0
       /\ non_blank_lines(original_lines[p], blanked_lines[p])
            = Len(non_blank_line_indices(original_lines[p], blanked_lines[p]))
  /\ (BeyondEndCall /\ last_call.fault = "none") => last_call.ret # "err"

\* a range that ends beyond the file was kept: its lines up to the last one
\* of the file are blanked
C18_Witness ==
  /\ BeyondEndCall
  /\ ReturnedTrue
  /\ last_call.post_non_blank < last_call.pre_non_blank
  /\ (total_lines(original_lines[last_call.range.file]) - 1)
       \in Range(blanked_lines[last_call.range.file])

\* the lines a file state renders: the original ones, the blanked ones empty
RenderedLines(p) ==
  [i \in 1..Len(original_lines[p]) |->
     IF (i - 1) \in Range(blanked_lines[p]) THEN <<>> ELSE original_lines[p][i]]

\* C19: the rendering of a file state is its original lines in order, the
\* blanked ones empty, separated by single line feeds with none at the end;
\* it has as many lines as the rendering with nothing blanked.
C19_Rendering ==
  \A p \in Paths :
    LET c == current_content(original_lines[p], blanked_lines[p])
    IN IF Len(original_lines[p]) = 0 THEN c = <<>>
       ELSE /\ Segments(c) = RenderedLines(p)
            /\ Cardinality(LFs(c)) = Len(original_lines[p]) - 1
            /\ Cardinality(LFs(c))
                 = Cardinality(LFs(current_content(original_lines[p], <<>>)))

\* a file with a blanked line between two lines that are not blanked
C19_Witness ==
  \E p \in Paths :
    /\ Len(original_lines[p]) = 3
    /\ Range(blanked_lines[p]) = {1}
    /\ original_lines[p][1] # <<>> /\ original_lines[p][3] # <<>>
    /\ disk[p] = current_content(original_lines[p], blanked_lines[p])

\* C20: a content that ends with a line feed gives one original line per
\* line feed and an empty last line after them.
C20_TrailingSegmentKept ==
  \A p \in Paths :
    (Len(content_read[p]) > 0 /\ content_read[p][Len(content_read[p])] = LF) =>
      /\ Len(original_lines[p]) = Cardinality(LFs(content_read[p])) + 1
      /\ original_lines[p][Len(original_lines[p])] = <<>>

\* the latest call of the user of FileManager
LastOp == ops[Len(ops)]

\* C21: restore_all round trip.  Whatever blank_lines, unblank_lines and
\* write_all calls came before, after restore_all every managed file has on
\* disk exactly the content add_file read.
C21_RestoreRoundTrip ==
  (ops # <<>> /\ LastOp.op = "restore_all") => disk = content_read

\* C22: blank/unblank round trip.  For a file state with any blanked set and
\* any index list S, blank_lines(S) followed by unblank_lines(S) leaves the
\* current_content of the file as it was before blank_lines(S).
C22_BlankUnblankRoundTrip ==
  (/\ Len(ops) >= 2
   /\ LastOp.op = "unblank_lines"
   /\ ops[Len(ops) - 1].op = "blank_lines"
   /\ ops[Len(ops) - 1].file = LastOp.file
   /\ ops[Len(ops) - 1].lines = LastOp.lines)
  => current_content(original_lines[LastOp.file], blanked_lines[LastOp.file])
       = ops[Len(ops) - 1].before[LastOp.file]

\* the strategies that draw from the generator
IsRandom(strategy) == strategy.name \in {"random_lines", "random_ranges"}

\* C23: determinism given a seed.  Two generate_ranges calls of random
\* strategies with the same seed and max_attempts, on the same set of file
\* states (the file states do not change between the calls of ops), return
\* the same sequence of ranges.
C23_SeedDeterminism ==
  \A i, j \in DOMAIN ops :
    (/\ ops[i].op = "generate_ranges"
     /\ ops[j].op = "generate_ranges"
     /\ IsRandom(ops[i].strategy)
     /\ ops[i].strategy = ops[j].strategy)
    => ops[i].result = ops[j].result

\* the lines of the range of the latest call that exist in its file
RangeLines ==
  {i \in last_call.range.start_line..(last_call.range.end_line - 1) :
     i < total_lines(original_lines[last_call.range.file])}

\* the result of the latest call differs from the baseline in field f only
DiffersOnlyIn(f) ==
  LET res == last_call.result
      base == baseline_result[1]
  IN /\ (res.stdout # base.stdout) <=> (f = "stdout")
     /\ (res.stderr # base.stderr) <=> (f = "stderr")
     /\ (res.exit_code # base.exit_code) <=> (f = "exit_code")

\* the latest call left no line of its range blanked and every other line as
\* it was, and the files on disk are the renderings of the file states
RangeReverted ==
  /\ \A p \in Paths :
       Range(blanked_lines[p]) =
         IF p = last_call.range.file THEN last_call.pre_blanked[p] \ RangeLines
         ELSE last_call.pre_blanked[p]
  /\ disk = write_all(original_lines, blanked_lines)

\* C24: exit-code and stderr sensitivity.  is_identical is true exactly when
\* stdout, stderr and exit code are all equal; a try_blank_range call (its
\* file writes and the launch of the command working) whose result differs
\* from the baseline only in the exit code, or only in stderr, returns false
\* and is reverted: the lines of the range unblanked, the files rewritten.
C24_Sensitivity ==
  (last_call.called /\ last_call.ran /\ last_call.fault = "none") =>
    /\ is_identical(last_call.result, baseline_result[1])
          <=> last_call.result = baseline_result[1]
    /\ (DiffersOnlyIn("exit_code") \/ DiffersOnlyIn("stderr")) =>
          /\ last_call.ret = "false"
          /\ RangeReverted

\* a call was rejected for a result that differs from the baseline in stderr only
C24_Witness ==
  /\ ReturnedFalse
  /\ last_call.ran
  /\ DiffersOnlyIn("stderr")
  /\ RangeLines # {}

\* the latest call was made after a call returned true, with a range of a
\* managed file all of whose lines were blanked already
SubRangeOfBlanked ==
  /\ last_call.called
  /\ last_call.after_success
  /\ last_call.range.file \in Paths
  /\ last_call.range.end_line <= total_lines(original_lines[last_call.range.file])
  /\ RangeLines \subseteq last_call.pre_blanked[last_call.range.file]

\* C25: scenario D.  After a try_blank_range call has succeeded, a later call
\* with a range inside the lines already blanked returns false, writes no
\* file and does not run the command.
C25_ScenarioD_ShortCircuit ==
  SubRangeOfBlanked =>
    /\ last_call.ret = "false"
    /\ ~last_call.ran
    /\ last_call.writes = 0
    /\ disk = last_call.pre_disk
    /\ BlankedSets(blanked_lines) = last_call.pre_blanked

\* the first call blanked two lines, the second one proposes one of them
C25_Witness ==
  /\ SubRangeOfBlanked
  /\ last_call.prev.ret = "true"
  /\ last_call.prev.range.end_line - last_call.prev.range.start_line = 2
  /\ last_call.range.end_line - last_call.range.start_line = 1

\* scenario B: a baseline, only bisection, and every configuration with a
\* line blanked gives a result that differs from the baseline
ScenarioB ==
  /\ baseline_result # <<>>
  /\ \A i \in 1..Len(strategies) : strategies[i].name = "bisection"
  /\ \A b \in Configurations : (\E p \in Paths : b[p] # <<>>) => ~Reproduces(b)

\* C26: scenario B.  When blanking any non-empty set of lines changes the
\* result of the command, the run with bisection ends after one round with
\* no line blanked: as many non-blank lines as at the start, every
\* attempted range reverted in memory and on disk.
C26_ScenarioB_NothingBlanked ==
  ScenarioB =>
    /\ total_successful = 0
    /\ round <= 1
    /\ pc \in {"strategy", "loop", "done"} =>
          /\ \A p \in Paths : blanked_lines[p] = <<>>
          /\ NonBlank = initial_lines
    /\ ReturnedFalse =>
          /\ BlankedSets(blanked_lines) = last_call.pre_blanked
          /\ disk = write_all(original_lines, blanked_lines)

\* the run of scenario B on three lines has ended, after three attempts
C26_Witness ==
  /\ ScenarioB
  /\ pc = "done"
  /\ round = 1
  /\ Len(original_lines) = 1
  /\ Len(original_lines[1]) = 3
  /\ Len(oracle_log) = 3

\* the state key of the latest call, taken when it was made, was in the memo
WasTested == last_call.called /\ last_call.pre_key \in last_call.pre_tested

\* C27: memo short-circuit.  When the current state key is in the memo,
\* try_blank_range returns false and changes nothing: not the blanked sets,
\* not the files on disk, not the memo; the command is not run.
C27_MemoShortCircuit ==
  WasTested =>
    /\ last_call.ret = "false"
    /\ ~last_call.ran
    /\ last_call.writes = 0
    /\ BlankedSets(blanked_lines) = last_call.pre_blanked
    /\ disk = last_call.pre_disk
    /\ tested_states = last_call.pre_tested

\* a call with a tested state key and a range that holds a non-blank line
C27_Witness ==
  /\ WasTested
  /\ last_call.range.file \in Paths
  /\ RangeLines \ last_call.pre_blanked[last_call.range.file] # {}

\* C28: after try_blank_range(r) returned false because the result did not
\* match, the same call again from the same file states returns false at
\* the memo check: no file written, the command not run.
C28_RejectedRangeMemoized ==
  (/\ last_call.called
   /\ last_call.prev.ret = "false"
   /\ last_call.prev.ran
   /\ last_call.prev.had_baseline
   /\ last_call.prev.range = last_call.range
   /\ last_call.prev.pre_blanked = last_call.pre_blanked)
  => (/\ last_call.ret = "false"
      /\ ~last_call.ran
      /\ last_call.writes = 0)

\* C29: ordering inside try_blank_range.  The lines are blanked in memory,
\* then every file is written, then the command runs, then its result is
\* compared; on a mismatch the lines are unblanked and every file is written
\* again.  When the command runs, every file on disk is the rendering of its
\* file state in memory.
C29_Ordering ==
  (last_call.called /\ last_call.ran) =>
    /\ \A p \in Paths : last_call.oracle_mem[p] = PostBlank(p)
    /\ \A p \in Paths :
         last_call.oracle_disk[p]
           = current_content(original_lines[p], SortedSeq(last_call.oracle_mem[p]))
    /\ last_call.result = run(command, last_call.oracle_disk)
    /\ last_call.ret = "true" =>
          /\ matches_baseline(last_call.result, baseline_result)
          /\ last_call.writes = 1
          /\ disk = last_call.oracle_disk
    /\ last_call.ret = "false" =>
          /\ ~matches_baseline(last_call.result, baseline_result)
          /\ last_call.writes = 2
          /\ disk = write_all(original_lines, blanked_lines)

\* a rejected call: the command saw files that differ from those before the
\* call and from those after it
C29_Witness ==
  /\ ReturnedFalse
  /\ last_call.ran
  /\ last_call.oracle_disk # last_call.pre_disk
  /\ last_call.oracle_disk # disk

\* C30: range validity.  Every range a strategy returns has
\* 0 <= start_line < end_line <= total_lines of its file, and its first and
\* last line are not blanked in the file states given to generate_ranges.
C30_RangeValidity ==
  calls > 0 =>
    \A r \in Range(ranges) :
      /\ r.file \in Paths
      /\ 0 <= r.start_line
      /\ r.start_line < r.end_line
      /\ r.end_line <= total_lines(original_lines[r.file])
      /\ r.start_line \notin Range(blanked_lines[r.file])
      /\ (r.end_line - 1) \notin Range(blanked_lines[r.file])

\* a random range strategy returned a range of two non-blank lines around a
\* blanked one
C30_Witness ==
  /\ calls > 0
  /\ strategies[1].name = "random_ranges"
  /\ \E r \in Range(ranges) :
       /\ r.end_line - r.start_line = 3
       /\ (r.start_line + 1) \in Range(blanked_lines[r.file])

\* the generate_ranges call whose result is in ranges was made by a strategy
\* of this name
Generated(name) == calls > 0 /\ strategies[1].name = name

\* the ranges of file p among the returned ones, in the order returned
RangesOf(p) == SelectSeq(ranges, LAMBDA r : r.file = p)

\* the non-blank index list of file p
NonBlankList(p) == non_blank_line_indices(original_lines[p], blanked_lines[p])

\* the number of k with n / 2^k > 0, k >= 1
RECURSIVE Halvings(_)
Halvings(n) == IF n \div 2 = 0 THEN 0 ELSE 1 + Halvings(n \div 2)

\* n / 2^k
RECURSIVE HalvedTimes(_, _)
HalvedTimes(n, k) == IF k = 0 THEN n ELSE HalvedTimes(n, k - 1) \div 2

\* the number of chunks of w entries in a list of n, the last one possibly shorter
ChunkCount(n, w) == (n + w - 1) \div w

\* the ranges of the chunks of w entries of L, for file p
ChunksOfWidth(p, L, w) ==
  [j \in 1..ChunkCount(Len(L), w) |->
     [file |-> p,
      start_line |-> L[(j - 1) * w + 1],
      end_line |-> L[Min(j * w, Len(L))] + 1]]

\* C31: bisection generation.  For each file with non-blank index list L the
\* ranges of the file are, for w = |L|/2, w/2, ... while w > 0 and in that
\* order, one range per consecutive chunk of w entries of L (the last chunk
\* possibly shorter), from the first index of the chunk to its last index + 1.
C31_BisectionGeneration ==
  Generated("bisection") =>
    \A p \in Paths :
      LET L == NonBlankList(p)
      IN RangesOf(p) = Concat([k \in 1..Halvings(Len(L)) |->
                                 ChunksOfWidth(p, L, HalvedTimes(Len(L), k))])

\* bisection on a file of seven non-blank lines among nine: widths 3 and 1,
\* three and seven chunks
C31_Witness ==
  /\ Generated("bisection")
  /\ Len(original_lines) = 1
  /\ Len(NonBlankList(1)) = 7
  /\ Len(original_lines[1]) = 9
  /\ Len(ranges) = 10

\* the lines a range covers
Covered(r) == r.start_line..(r.end_line - 1)

\* C32: bisection never proposes a whole file.  For a file with exactly one
\* non-blank line it returns no range; for a file with two or more, no
\* returned range contains every non-blank line of the file.
C32_BisectionNeverWholeFile ==
  Generated("bisection") =>
    \A p \in Paths :
      LET L == NonBlankList(p)
      IN /\ Len(L) = 1 => RangesOf(p) = <<>>
         /\ Len(L) >= 2 =>
              \A r \in Range(RangesOf(p)) : ~(Range(L) \subseteq Covered(r))

\* bisection on two files, one with a single non-blank line, one with two
C32_Witness ==
  /\ Generated("bisection")
  /\ Len(original_lines) = 2
  /\ Len(NonBlankList(1)) = 1
  /\ Len(NonBlankList(2)) = 2
  /\ Len(ranges) = 2

\* the number of non-blank lines of its file that range r covers
CoveredCount(r) == Cardinality(Covered(r) \cap Range(NonBlankList(r.file)))

\* range r goes from the i-th non-blank line of its file to the (i+w-1)-th
IsWindow(r, i, w) ==
  LET L == NonBlankList(r.file)
  IN /\ r.start_line = L[i]
     /\ r.end_line = L[i + w - 1] + 1

\* C33: sliding window generation.  A window size of 0 is taken as 1.  For
\* window size w and a file with n non-blank lines: when n >= w, exactly
\* n - w + 1 ranges, the i-th from the i-th to the (i+w-1)-th non-blank line;
\* when 0 < n < w, exactly one range over all non-blank lines; no range
\* starts at a blanked line.
C33_SlidingWindowGeneration ==
  /\ SlidingWindowStrategy_new(0) = 1
  /\ \A w \in 1..MaxGenWindow : SlidingWindowStrategy_new(w) = w
  /\ Generated("sliding_window") =>
       \A p \in Paths :
         LET n == Len(NonBlankList(p))
             w == strategies[1].window_size
             rs == RangesOf(p)
         IN /\ n >= w =>
                 /\ Len(rs) = n - w + 1
                 /\ \A i \in 1..Len(rs) : IsWindow(rs[i], i, w)
            /\ (0 < n /\ n < w) =>
                 /\ Len(rs) = 1
                 /\ IsWindow(rs[1], 1, n)
            /\ n = 0 => rs = <<>>
            /\ \A r \in Range(rs) : r.start_line \notin Range(blanked_lines[p])

\* a window of two on two files: one with a single non-blank line of its
\* two (one range over it), one with two non-blank lines (one window)
C33_Witness ==
  /\ Generated("sliding_window")
  /\ strategies[1].window_size = 2
  /\ Len(original_lines) = 2
  /\ Len(original_lines[1]) = 2
  /\ Len(NonBlankList(1)) = 1
  /\ Len(NonBlankList(2)) = 2
  /\ Len(ranges) = 2

\* sum over w = 1..m of (n - w + 1)
RECURSIVE WindowTotal(_, _)
WindowTotal(n, m) == IF m = 0 THEN 0 ELSE (n - m + 1) + WindowTotal(n, m - 1)

\* C34: up-to-N generation.  A maximum window of 0 is taken as 1.  For maximum
\* window W and a file with n non-blank lines the strategy returns the sum
\* over w = 1..min(W, n) of (n - w + 1) ranges of the file, the windows of
\* w consecutive non-blank lines for each such w and none larger than n; the
\* ranges come size-ascending, every window of one size of every file
\* before any larger window.
C34_UpToNGeneration ==
  /\ UpToNLinesStrategy_new(0).max_window_size = 1
  /\ Generated("up_to_n_lines") =>
       LET W == strategies[1].max_window_size
       IN /\ \A p \in Paths :
               LET n == Len(NonBlankList(p))
                   rs == RangesOf(p)
               IN /\ Len(rs) = WindowTotal(n, Min(W, n))
                  /\ \A w \in 1..Min(W, n) : \A i \in 1..(n - w + 1) :
                       \E j \in 1..Len(rs) : IsWindow(rs[j], i, w) /\ CoveredCount(rs[j]) = w
                  /\ \A r \in Range(rs) :
                       /\ CoveredCount(r) \in 1..Min(W, n)
                       /\ r.start_line \notin Range(blanked_lines[p])
                       /\ (r.end_line - 1) \notin Range(blanked_lines[p])
          /\ \A i, j \in 1..Len(ranges) :
               i < j => CoveredCount(ranges[i]) <= CoveredCount(ranges[j])

\* a maximum window of three on two files of two non-blank lines each: the
\* four single lines, then the two pairs, nothing of size three
C34_Witness ==
  /\ Generated("up_to_n_lines")
  /\ strategies[1].max_window_size = 3
  /\ Len(original_lines) = 2
  /\ \A p \in Paths : Len(NonBlankList(p)) = 2
  /\ Len(ranges) = 6

\* C35: random single lines.  For maximum attempt count M the strategy
\* returns at most min(M, non-blank lines of all files) ranges, each of one
\* line (end_line = start_line + 1) that is not blanked, and no (file, line)
\* pair twice.
C35_RandomLines ==
  Generated("random_lines") =>
    /\ Len(ranges) <= Min(strategies[1].max_attempts, NonBlank)
    /\ \A r \in Range(ranges) :
         /\ r.file \in Paths
         /\ r.end_line = r.start_line + 1
         /\ r.start_line \in Range(NonBlankList(r.file))
    /\ \A i, j \in 1..Len(ranges) :
         i # j => <<ranges[i].file, ranges[i].start_line>>
                    # <<ranges[j].file, ranges[j].start_line>>

\* three attempts on one file of three or more non-blank lines gave two
\* ranges: one attempt drew a line a second time
C35_Witness ==
  /\ Generated("random_lines")
  /\ strategies[1].max_attempts = 3
  /\ Len(original_lines) = 1
  /\ Len(NonBlankList(1)) >= 3
  /\ Len(ranges) = 2

\* C36: random ranges.  For M attempts the strategy returns at most M ranges;
\* each is of a file with at least two non-blank lines and covers between 1
\* and max(1, n / 4) consecutive entries of the non-blank index list of the
\* file, n being its length.
C36_RandomRanges ==
  Generated("random_ranges") =>
    /\ Len(ranges) <= strategies[1].max_attempts
    /\ \A r \in Range(ranges) :
         /\ r.file \in Paths
         /\ LET n == Len(NonBlankList(r.file))
                largest == IF n \div 4 >= 1 THEN n \div 4 ELSE 1
            IN /\ n >= 2
               /\ \E size \in 1..largest : \E i \in 1..(n - size + 1) : IsWindow(r, i, size)

\* a range of two entries of a file with eight non-blank lines or more
C36_Witness ==
  /\ Generated("random_ranges")
  /\ \E r \in Range(ranges) :
       /\ Len(NonBlankList(r.file)) >= 8
       /\ CoveredCount(r) = 2

\* file p has no line, or all its lines are blanked
NothingLeft(p) ==
  \A i \in 0..(total_lines(original_lines[p]) - 1) : i \in Range(blanked_lines[p])

\* no strategy value returns a range of a file with nothing left, on the
\* file states of the current state
NoRangeOfEmptyFile ==
  \A strategy \in GenStrategies :
    \A r \in Range(generate_ranges(strategy, file_order, original_lines, blanked_lines)) :
      ~NothingLeft(r.file)

\* execute_strategy with an empty list of ranges: nothing is attempted, no
\* file is written, the command is not run, the count returned is 0
EmptyListStep ==
  /\ (pc = "strategy" /\ pc' = "try" /\ ranges' = <<>>) =>
       (successful' = 0 /\ disk' = disk /\ oracle_log' = oracle_log
          /\ last_call' = last_call)
  /\ (pc = "try" /\ ranges = <<>>) =>
       (/\ pc' = "strategy"
        /\ round_successful' = round_successful + successful
        /\ total_successful' = total_successful + successful
        /\ disk' = disk
        /\ oracle_log' = oracle_log
        /\ last_call' = last_call)

\* C37: a file with zero lines, or with all its lines blanked, gets no range
\* from any strategy; with an empty list of ranges execute_strategy returns
\* 0 without writing a file and without running the command.
C37_EmptyFilesNoRanges == []NoRangeOfEmptyFile /\ [][EmptyListStep]_vars

\* the second round of a run that blanked every line: the strategy returned
\* no range
C37_Witness ==
  /\ pc = "try"
  /\ round = 2
  /\ ranges = <<>>
  /\ successful = 0
  /\ \A p \in Paths : NothingLeft(p)
  /\ \E p \in Paths : total_lines(original_lines[p]) > 0

\* the latest call stopped at the memo check
StoppedAtMemo ==
  /\ last_call.ret = "false"
  /\ last_call.pre_key \in last_call.pre_tested
  /\ ~last_call.ran
  /\ last_call.writes = 0

\* C38: when no write and no launch of the command fails, every
\* try_blank_range call made after a call returned true returns false at
\* the memo check; so at most one call returns true, and the round loop runs
\* at most two rounds.
C38_OneSuccessOnly ==
  /\ (last_call.called /\ last_call.after_success) => StoppedAtMemo
  /\ TrueReturns <= 1
  /\ round <= 2

\* in the second round, a call on a range that still has a non-blank line
\* is stopped at the memo check
C38_Witness ==
  /\ last_call.called
  /\ last_call.after_success
  /\ round = 2
  /\ RangeLines \ last_call.pre_blanked[last_call.range.file] # {}

\* C39: when try_blank_range returns an error after it has blanked the range
\* (a write_all failed or the command could not be launched), the blanked
\* sets in memory are the same as before the call.
C39_ErrorRevertsMemory ==
  (last_call.called /\ last_call.ret = "err" /\ last_call.range.file \in Paths)
    => BlankedSets(blanked_lines) = last_call.pre_blanked

====
